---------------------------- MODULE Spec2Model ----------------------------
(* Model of genprog.py: the predicate / atom / rule value objects and the    *)
(* script that enumerates every term-order variant of a rule body and        *)
(* propagates the chosen orders to the facts and to the rule head.           *)
(* Python lists are sequences; list INDICES keep Python's 0-based values     *)
(* (and its negative indexing), so an order such as [1, 0] is <<1, 0>>.       *)
EXTENDS Integers, Sequences, FiniteSets

VARIABLES
    pc,                      \* position of the running script
    rule,                    \* the input rule (genprog.py:68)
    facts,                   \* the input facts (genprog.py:66)
    order,                   \* the body order handed to permute_body (genprog.py:73)
    permuted,                \* body of rule.permute_body(order), the list being iterated
    body_term_permutations,  \* genprog.py:72
    k,                       \* number of combinations the product loop has consumed
    out,                     \* what the loop has printed: (permuted_facts, Rule) per combination
    a0,                      \* atom returned by the constructor
    a,                       \* atom reached from a0 by successive permute calls
    hist,                    \* the orders of those permute calls, oldest first
    call                     \* the last call made by the driver and its outcome

vars == <<pc, rule, facts, order, permuted, body_term_permutations, k, out,
          a0, a, hist, call>>

apiVars == <<a0, a, hist, call>>

----------------------------------------------------------------------------
(* Bounds of the explored inputs.                                            *)

MaxBody == 2     \* longest rule body
MaxFacts == 2    \* longest fact list
MaxChain == 2    \* longest chain of successive permute calls on one atom

----------------------------------------------------------------------------
(* Outcomes of a call: a returned value or a raised exception.               *)

ArityError == "terms must have same length as pred arity"
OrderError == "permute order must have same length as terms"
IndexError == "list index out of range"

Ok(v) == [exc |-> "none", val |-> v]
Raised(e) == [exc |-> e]
IsOk(r) == r.exc = "none"

----------------------------------------------------------------------------
(* Python list primitives.                                                   *)

\* list(range(n))
Range0(n) == [i \in 1..n |-> i - 1]

\* s[i] is defined for -len(s) <= i < len(s)
ValidIndex(s, i) == -Len(s) <= i /\ i < Len(s)

\* s[i], a negative i counting from the end
Item(s, i) == IF i >= 0 THEN s[i + 1] ELSE s[Len(s) + i + 1]

\* [s[i] for i in order]
Gather(s, ord) ==
    IF \E j \in 1..Len(ord) : ~ValidIndex(s, ord[j])
    THEN Raised(IndexError)
    ELSE Ok([j \in 1..Len(ord) |-> Item(s, ord[j])])

RECURSIVE Concat(_)
\* the concatenation of a list of lists
Concat(ss) == IF ss = <<>> THEN <<>> ELSE Head(ss) \o Concat(Tail(ss))

\* s with its i-th element (1-based) removed
Without(s, i) == SubSeq(s, 1, i - 1) \o SubSeq(s, i + 1, Len(s))

----------------------------------------------------------------------------
(* class Pred                                                                *)

Pred(name, arity) == [name |-> name, arity |-> arity]

\* Pred.__eq__
PredEq(p, q) == p.name = q.name /\ p.arity = q.arity

----------------------------------------------------------------------------
(* class Atom                                                                *)

\* the constructor without its length test
AtomNoCheck(pred, terms, permutation) ==
    Ok([pred |-> pred, terms |-> terms, permutation |-> permutation])

\* Atom.__init__ with an explicit permutation argument
Atom(pred, terms, permutation) ==
    IF Len(terms) # pred.arity
    THEN Raised(ArityError)
    ELSE Ok([pred |-> pred, terms |-> terms, permutation |-> permutation])

\* Atom.__init__ with permutation = None: the identity list(range(arity))
AtomDefault(pred, terms) == Atom(pred, terms, Range0(pred.arity))

\* permute reading terms[i - 1] for each i of the order
permuteOffByOne(atom, ord) ==
    IF Len(ord) # Len(atom.terms)
    THEN Raised(OrderError)
    ELSE LET ts == Gather(atom.terms, [j \in 1..Len(ord) |-> ord[j] - 1])
         IN  IF IsOk(ts) THEN Atom(atom.pred, ts.val, ord) ELSE ts

\* Atom.permute
permute(atom, ord) ==
    IF Len(ord) # Len(atom.terms)
    THEN Raised(OrderError)
    ELSE LET ts == Gather(atom.terms, ord)
         IN  IF IsOk(ts) THEN Atom(atom.pred, ts.val, ord) ELSE ts

----------------------------------------------------------------------------
(* class Rule                                                                *)

Rule(head, body) == [head |-> head, body |-> body]

\* Rule.permute_body: no length check, only the list comprehension
permute_body(r, ord) ==
    LET b == Gather(r.body, ord)
    IN  IF IsOk(b) THEN Ok(Rule(r.head, b.val)) ELSE b

\* Rule.permute_head
permute_head(r, ord) ==
    LET h == permute(r.head, ord)
    IN  IF IsOk(h) THEN Ok(Rule(h.val, r.body)) ELSE h

----------------------------------------------------------------------------
(* itertools                                                                 *)

\* the n rotations of the pool only
permutationsRotations(pool) ==
    [i \in 1..Len(pool) |->
        [j \in 1..Len(pool) |-> pool[((i + j - 2) % Len(pool)) + 1]]]

RECURSIVE Tuples(_, _)
\* every tuple of length n over the pool, in lexicographic order of positions
Tuples(pool, n) ==
    IF n = 0 THEN << <<>> >>
    ELSE Concat([i \in 1..Len(pool) |->
                    LET rest == Tuples(pool, n - 1)
                    IN  [j \in 1..Len(rest) |-> <<pool[i]>> \o rest[j]]])

\* itertools.product(pool, repeat=len(pool)) in place of permutations
permutationsWithRepeats(pool) == Tuples(pool, Len(pool))

RECURSIVE permutations(_)
\* itertools.permutations(pool): every ordering of the pool, in lexicographic
\* order of the positions chosen
permutations(pool) ==
    IF pool = <<>> THEN << <<>> >>
    ELSE Concat([i \in 1..Len(pool) |->
                    LET rest == permutations(Without(pool, i))
                    IN  [j \in 1..Len(rest) |-> <<pool[i]>> \o rest[j]]])

RECURSIVE productLen(_)
\* the number of tuples itertools.product(*lists) yields
productLen(lists) ==
    IF lists = <<>> THEN 1 ELSE Len(Head(lists)) * productLen(Tail(lists))

RECURSIVE productAt(_, _)
\* the n-th tuple (from 0) itertools.product(*lists) yields: the rightmost list
\* advances fastest, each list restarting when the one to its right wraps
productAt(lists, n) ==
    IF lists = <<>> THEN <<>>
    ELSE LET inner == productLen(Tail(lists))
         IN  <<Head(lists)[(n \div inner) + 1]>> \o productAt(Tail(lists), n % inner)

----------------------------------------------------------------------------
(* The generator script, genprog.py:72-94.                                   *)

\* genprog.py:75-76: every term order of one body atom, as call outcomes
TermPermutations(atom) ==
    LET orders == permutations(Range0(atom.pred.arity))
    IN  [j \in 1..Len(orders) |-> permute(atom, orders[j])]

\* the fact loop also keeping, unchanged, a fact no atom matches
PermutedFactsPassThrough(fs, combination) ==
    Concat([f \in 1..Len(fs) |->
        IF \E j \in 1..Len(combination) : PredEq(fs[f].head.pred, combination[j].pred)
        THEN Concat([j \in 1..Len(combination) |->
                IF PredEq(fs[f].head.pred, combination[j].pred)
                THEN <<permute_head(fs[f], combination[j].permutation)>>
                ELSE <<>>])
        ELSE <<Ok(fs[f])>>])

\* genprog.py:80-85: for each fact, for each atom of the combination with the
\* fact's predicate, the outcome of fact.permute_head(atom.permutation)
PermutedFacts(fs, combination) ==
    Concat([f \in 1..Len(fs) |->
        Concat([j \in 1..Len(combination) |->
            IF PredEq(fs[f].head.pred, combination[j].pred)
            THEN <<permute_head(fs[f], combination[j].permutation)>>
            ELSE <<>>])])

RECURSIVE PropagateHead(_, _)
\* genprog.py:87-90: head is re-assigned by every atom that has its predicate
PropagateHead(head, atoms) ==
    IF atoms = <<>> THEN Ok(head)
    ELSE IF PredEq(head.pred, Head(atoms).pred)
         THEN LET h == permute(head, Head(atoms).permutation)
              IN  IF IsOk(h) THEN PropagateHead(h.val, Tail(atoms)) ELSE h
         ELSE PropagateHead(head, Tail(atoms))

AllOk(rs) == \A n \in 1..Len(rs) : IsOk(rs[n])
Vals(rs) == [n \in 1..Len(rs) |-> rs[n].val]

\* rule.body = [...]; return self
PermuteBodyInPlace ==
    /\ pc = "start"
    /\ LET r == permute_body(rule, order)
       IN  IF IsOk(r)
           THEN pc' = "enum" /\ permuted' = r.val.body /\ rule' = r.val
           ELSE pc' = "raised" /\ UNCHANGED <<permuted, rule>>
    /\ UNCHANGED <<facts, order, body_term_permutations, k, out>>
    /\ UNCHANGED apiVars

\* genprog.py:73, the call rule.permute_body(order)
PermuteBodyStep ==
    /\ pc = "start"
    /\ LET r == permute_body(rule, order)
       IN  IF IsOk(r)
           THEN pc' = "enum" /\ permuted' = r.val.body
           ELSE pc' = "raised" /\ UNCHANGED permuted
    /\ UNCHANGED <<rule, facts, order, body_term_permutations, k, out>>
    /\ UNCHANGED apiVars

\* genprog.py:73-77, one iteration of the loop over the body atoms
EnumAtom ==
    /\ pc = "enum"
    /\ Len(body_term_permutations) < Len(permuted)
    /\ LET l == TermPermutations(permuted[Len(body_term_permutations) + 1])
       IN  IF AllOk(l)
           THEN /\ body_term_permutations' = Append(body_term_permutations, Vals(l))
                /\ pc' = pc
           ELSE pc' = "raised" /\ UNCHANGED body_term_permutations
    /\ UNCHANGED <<rule, facts, order, permuted, k, out>>
    /\ UNCHANGED apiVars

\* genprog.py:79, the product iterator is created once the first loop is over
StartProduct ==
    /\ pc = "enum"
    /\ Len(body_term_permutations) = Len(permuted)
    /\ pc' = "product"
    /\ UNCHANGED <<rule, facts, order, permuted, body_term_permutations, k, out>>
    /\ UNCHANGED apiVars

\* genprog.py:79-94, one iteration of the loop over the combinations
Emit ==
    /\ pc = "product"
    /\ k < productLen(body_term_permutations)
    /\ LET combination == productAt(body_term_permutations, k)
           permuted_facts == PermutedFacts(facts, combination)
           head == PropagateHead(rule.head, combination)
       IN  IF AllOk(permuted_facts) /\ IsOk(head)
           THEN /\ out' = Append(out, [facts |-> Vals(permuted_facts),
                                       rule |-> Rule(head.val, combination)])
                /\ k' = k + 1
                /\ pc' = pc
           ELSE pc' = "raised" /\ UNCHANGED <<k, out>>
    /\ UNCHANGED <<rule, facts, order, permuted, body_term_permutations>>
    /\ UNCHANGED apiVars

\* genprog.py:79, the product is exhausted and the script ends
Finish ==
    /\ pc = "product"
    /\ k = productLen(body_term_permutations)
    /\ pc' = "done"
    /\ UNCHANGED <<rule, facts, order, permuted, body_term_permutations, k, out>>
    /\ UNCHANGED apiVars

----------------------------------------------------------------------------
(* Inputs.                                                                   *)

BoundedSeq(S, n) == UNION {[1..m -> S] : m \in 0..n}

\* genprog.py:56-58, and a second predicate named PP of another arity
PP == Pred("PP", 2)
QQ == Pred("QQ", 3)
RR == Pred("RR", 3)
P1 == Pred("PP", 1)
Preds == {PP, QQ, RR, P1}

\* genprog.py:60-62: atoms over variables, built by the constructor
RuleAtoms ==
    {AtomDefault(PP, <<"x", "y">>).val,
     AtomDefault(RR, <<"x", "y", "z">>).val,
     AtomDefault(P1, <<"x">>).val}

HeadAtoms ==
    {AtomDefault(RR, <<"x", "y", "z">>).val,
     AtomDefault(PP, <<"x", "y">>).val}

\* genprog.py:68
RuleInputs == {Rule(h, b) : h \in HeadAtoms, b \in BoundedSeq(RuleAtoms, MaxBody)}

\* genprog.py:64-65: ground facts, rules with an empty body
FactInputs ==
    {Rule(AtomDefault(PP, <<1, 2>>).val, <<>>),
     Rule(AtomDefault(QQ, <<1, 2, 3>>).val, <<>>),
     Rule(AtomDefault(RR, <<1, 1, 2>>).val, <<>>)}

\* genprog.py:66: lists of distinct facts
FactLists ==
    {fs \in BoundedSeq(FactInputs, MaxFacts) :
        \A i, j \in 1..Len(fs) : fs[i] = fs[j] => i = j}

\* the orders of n body positions: the bijections on 0..n-1
BodyOrders(n) ==
    {o \in [1..n -> 0..(n - 1)] : \A i, j \in 1..n : o[i] = o[j] => i = j}

NoAtom == [pred |-> Pred("", 0), terms |-> <<>>, permutation |-> <<>>]
NoCall == [op |-> "none"]

Init ==
    /\ pc = "start"
    /\ rule \in RuleInputs
    /\ facts \in FactLists
    /\ order \in BodyOrders(Len(rule.body))
    /\ permuted = <<>>
    /\ body_term_permutations = <<>>
    /\ k = 0
    /\ out = <<>>
    /\ a0 = NoAtom /\ a = NoAtom /\ hist = <<>> /\ call = NoCall

Next ==
    \/ PermuteBodyStep
    \/ EnumAtom
    \/ StartProduct
    \/ Emit
    \/ Finish

Spec == Init /\ [][Next]_vars

----------------------------------------------------------------------------
(* A driver of the classes' methods: one constructor call followed by a      *)
(* chain of permute calls on the atom it returned, or one call of a Rule     *)
(* method. A raised exception is not caught: the driver stops there.         *)

MaxArity == CHOOSE n \in {p.arity : p \in Preds} : \A p \in Preds : p.arity <= n

\* term lists handed to the constructor, of every length up to MaxArity + 1
TermLists ==
    {<<>>, <<"x">>, <<"x", "y">>, <<"x", "x">>, <<"x", "y", "z">>,
     <<"x", "y", "x">>, <<"x", "y", "z", "w">>}

\* permutation arguments handed to the constructor
ExplicitPerms == {<<>>, <<0>>, <<1, 0>>, <<0, 0>>, <<2, 0, 1>>}

\* order arguments: every permutation of 0..n-1 for n <= MaxArity, a list with
\* a repeated index, one with a negative index, one with an index past the
\* end of every list, and one longer than every list
OrderInputs ==
    UNION {BodyOrders(n) : n \in 0..MaxArity}
    \cup {<<0, 0>>, <<-1, 0>>, <<0, 1, 1>>, <<0, MaxArity>>, Range0(MaxArity + 1)}

NoRule == Rule(NoAtom, <<>>)

InitApi ==
    /\ \/ pc = "new" /\ rule = NoRule
       \/ pc = "rule" /\ rule \in RuleInputs
    /\ facts = <<>> /\ order = <<>> /\ permuted = <<>>
    /\ body_term_permutations = <<>> /\ k = 0 /\ out = <<>>
    /\ a0 = NoAtom /\ a = NoAtom /\ hist = <<>> /\ call = NoCall

Returned(r, ifOk) == IF IsOk(r) THEN ifOk ELSE "raised"

\* Atom(pred, terms)
ConstructDefault ==
    /\ pc = "new"
    /\ \E pred \in Preds, terms \in TermLists :
        LET r == AtomDefault(pred, terms)
        IN  /\ call' = [op |-> "Atom", pred |-> pred, terms |-> terms, result |-> r]
            /\ pc' = Returned(r, "atom")
            /\ a0' = IF IsOk(r) THEN r.val ELSE a0
            /\ a' = IF IsOk(r) THEN r.val ELSE a
    /\ UNCHANGED <<hist, rule, facts, order, permuted, body_term_permutations, k, out>>

\* Atom(pred, terms, permutation)
ConstructWith ==
    /\ pc = "new"
    /\ \E pred \in Preds, terms \in TermLists, permutation \in ExplicitPerms :
        LET r == Atom(pred, terms, permutation)
        IN  /\ call' = [op |-> "Atom", pred |-> pred, terms |-> terms,
                        permutation |-> permutation, result |-> r]
            /\ pc' = Returned(r, "atom")
            /\ a0' = IF IsOk(r) THEN r.val ELSE a0
            /\ a' = IF IsOk(r) THEN r.val ELSE a
    /\ UNCHANGED <<hist, rule, facts, order, permuted, body_term_permutations, k, out>>

\* a = a.permute(order)
CallPermute ==
    /\ pc = "atom"
    /\ Len(hist) < MaxChain
    /\ \E ord \in OrderInputs :
        LET r == permute(a, ord)
        IN  /\ call' = [op |-> "permute", atom |-> a, order |-> ord, result |-> r]
            /\ pc' = Returned(r, "atom")
            /\ a' = IF IsOk(r) THEN r.val ELSE a
            /\ hist' = IF IsOk(r) THEN Append(hist, ord) ELSE hist
    /\ UNCHANGED <<a0, rule, facts, order, permuted, body_term_permutations, k, out>>

\* rule.permute_body(order)
CallPermuteBody ==
    /\ pc = "rule"
    /\ \E ord \in OrderInputs :
        LET r == permute_body(rule, ord)
        IN  /\ call' = [op |-> "permute_body", order |-> ord, result |-> r]
            /\ pc' = Returned(r, "returned")
    /\ UNCHANGED <<a0, a, hist, rule, facts, order, permuted, body_term_permutations, k, out>>

\* rule.permute_head(order)
CallPermuteHead ==
    /\ pc = "rule"
    /\ \E ord \in OrderInputs :
        LET r == permute_head(rule, ord)
        IN  /\ call' = [op |-> "permute_head", order |-> ord, result |-> r]
            /\ pc' = Returned(r, "returned")
    /\ UNCHANGED <<a0, a, hist, rule, facts, order, permuted, body_term_permutations, k, out>>

NextApi ==
    \/ ConstructDefault
    \/ ConstructWith
    \/ CallPermute
    \/ CallPermuteBody
    \/ CallPermuteHead

SpecApi == InitApi /\ [][NextApi]_vars

----------------------------------------------------------------------------
(* Vocabulary of the properties.                                             *)

\* p lists each of 0..Len(p)-1 exactly once
IsPermutation(p) ==
    /\ \A i \in 1..Len(p) : p[i] \in 0..(Len(p) - 1)
    /\ \A i, j \in 1..Len(p) : p[i] = p[j] => i = j

\* the order q with q[p[i]] = i
Inverse(p) == [i \in 1..Len(p) |-> (CHOOSE j \in 1..Len(p) : p[j] = i - 1) - 1]

RECURSIVE Factorial(_)
Factorial(n) == IF n <= 1 THEN 1 ELSE n * Factorial(n - 1)

RECURSIVE FactorialProduct(_)
FactorialProduct(arities) ==
    IF arities = <<>> THEN 1
    ELSE Factorial(Head(arities)) * FactorialProduct(Tail(arities))

RECURSIVE PermTuples(_)
\* every way to choose one permutation of 0..n-1 per listed arity n
PermTuples(arities) ==
    IF arities = <<>> THEN {<<>>}
    ELSE {<<p>> \o t : p \in BodyOrders(Head(arities)), t \in PermTuples(Tail(arities))}

Occurrences(s, x) == Cardinality({i \in 1..Len(s) : s[i] = x})

SameBag(s, t) ==
    /\ Len(s) = Len(t)
    /\ \A i \in 1..Len(s) : Occurrences(s, s[i]) = Occurrences(t, s[i])

\* terms is src reordered by perm: terms[i] == src[perm[i]]
ReorderedBy(terms, src, perm) ==
    /\ Len(terms) = Len(src)
    /\ Len(perm) = Len(src)
    /\ \A i \in 1..Len(terms) :
        perm[i] \in 0..(Len(src) - 1) /\ terms[i] = src[perm[i] + 1]

SamePred(p, q) == p.name = q.name /\ p.arity = q.arity

\* the pair emitted by the newest iteration of the product loop; every emitted
\* pair is the newest one in the state that follows its emission
Emitted == out[Len(out)]

\* the (fact, body position) pairs whose predicates agree, fact-major
MatchingPairs(comb) ==
    LET K == Len(comb)
        all == [n \in 1..(Len(facts) * K) |-> <<((n - 1) \div K) + 1, ((n - 1) % K) + 1>>]
        Agree(fj) == SamePred(facts[fj[1]].head.pred, comb[fj[2]].pred)
    IN  SelectSeq(all, Agree)

\* g is the input fact f with its head reordered by the permutation of comb[j]
IsPropagated(g, f, comb, j) ==
    /\ g.body = facts[f].body
    /\ g.head.pred = facts[f].head.pred
    /\ ReorderedBy(g.head.terms, facts[f].head.terms, comb[j].permutation)

----------------------------------------------------------------------------
(* Properties of the generator (Spec).                                       *)

\* C1: when the script ends it has emitted exactly a1! * ... * ak! combinations
\* for body arities a1..ak, their tuples of recorded permutations are pairwise
\* distinct and every tuple of permutations occurs; an empty body gives exactly
\* one combination, whose rule is the input rule.
C1_AllCombinations ==
    pc = "done" =>
        LET arities == [i \in 1..Len(rule.body) |-> rule.body[i].pred.arity]
            slots == [i \in 1..Len(permuted) |-> permuted[i].pred.arity]
            tuple(n) == [i \in 1..Len(out[n].rule.body) |->
                            out[n].rule.body[i].permutation]
        IN  /\ Len(out) = FactorialProduct(arities)
            /\ \A m, n \in 1..Len(out) : tuple(m) = tuple(n) => m = n
            /\ \A t \in PermTuples(slots) : \E n \in 1..Len(out) : tuple(n) = t
            /\ rule.body = <<>> => Len(out) = 1 /\ out[1].rule = rule

C1_Witness ==
    /\ pc = "done"
    /\ Len(rule.body) = 2
    /\ rule.body[1].pred.arity = 2
    /\ rule.body[2].pred.arity = 3
    /\ Len(out) = 12

\* C4 (as claimed): the emitted head is the input head reordered by the
\* recorded permutation of a body atom that has the head's predicate, and
\* records that permutation; without such an atom it is the input head.
C4_HeadFollowsBodyAtom ==
    out # <<>> =>
        LET e == Emitted.rule
            sharing == {j \in 1..Len(e.body) : SamePred(rule.head.pred, e.body[j].pred)}
        IN  IF sharing = {}
            THEN e.head = rule.head
            ELSE \E j \in sharing :
                    /\ e.head.permutation = e.body[j].permutation
                    /\ e.head.pred = rule.head.pred
                    /\ ReorderedBy(e.head.terms, rule.head.terms, e.body[j].permutation)

\* C5: the facts emitted with a combination are exactly the propagated facts,
\* one per (input fact, atom of the combination) pair with equal predicates,
\* each the fact with its head reordered by that atom's permutation; a fact
\* whose predicate no atom has is not emitted.
C5_FactsPropagated ==
    out # <<>> =>
        LET comb == Emitted.rule.body
            got == Emitted.facts
            pairs == {fj \in (1..Len(facts)) \X (1..Len(comb)) :
                        SamePred(facts[fj[1]].head.pred, comb[fj[2]].pred)}
        IN  /\ Len(got) = Cardinality(pairs)
            /\ \A fj \in pairs :
                \E n \in 1..Len(got) : IsPropagated(got[n], fj[1], comb, fj[2])
            /\ \A n \in 1..Len(got) :
                \E fj \in pairs : IsPropagated(got[n], fj[1], comb, fj[2])
            /\ \A f \in 1..Len(facts) :
                (\A j \in 1..Len(comb) : ~SamePred(facts[f].head.pred, comb[j].pred))
                    => \A n \in 1..Len(got) : got[n].head.pred # facts[f].head.pred

C5_Witness ==
    /\ out # <<>>
    /\ Len(facts) = 2
    /\ Len(Emitted.facts) = 1
    /\ Emitted.facts[1] # facts[1]
    /\ Emitted.facts[1] # facts[2]

\* C6: every emitted fact has the predicate and the multiset of head terms of
\* the input fact it was derived from.
C6_TermBagKept ==
    out # <<>> =>
        LET got == Emitted.facts
            from == MatchingPairs(Emitted.rule.body)
        IN  /\ Len(got) = Len(from)
            /\ \A n \in 1..Len(got) :
                /\ got[n].head.pred = facts[from[n][1]].head.pred
                /\ SameBag(got[n].head.terms, facts[from[n][1]].head.terms)

C6_Witness ==
    /\ out # <<>>
    /\ \E n \in 1..Len(Emitted.facts) :
        LET src == facts[MatchingPairs(Emitted.rule.body)[n][1]].head.terms
        IN  /\ Emitted.facts[n].head.terms # src
            /\ \E i, j \in 1..Len(src) : i # j /\ src[i] = src[j]

\* C10: no step of the generator changes the input rule, the input facts or
\* the order argument; the atoms permute is called on, and the lists and pairs
\* already built from them, stay as they were; and permute_body returns the
\* input's own body atoms, repositioned, with their terms and recorded
\* permutations as they were.
C10_InputsUntouched ==
    [][/\ rule' = rule
       /\ facts' = facts
       /\ order' = order
       /\ pc # "start" => permuted' = permuted
       /\ \A i \in 1..Len(body_term_permutations) :
            /\ i <= Len(body_term_permutations')
            /\ body_term_permutations'[i] = body_term_permutations[i]
       /\ \A n \in 1..Len(out) : n <= Len(out') /\ out'[n] = out[n]
       /\ (pc = "start" /\ pc' = "enum") =>
            /\ Len(permuted') = Len(rule.body)
            /\ \A i \in 1..Len(permuted') : permuted'[i] = rule.body[order[i] + 1]]_vars

C10_Witness ==
    /\ pc = "done"
    /\ Len(out) > 1
    /\ facts # <<>>
    /\ Len(permuted) = 2
    /\ permuted # rule.body
    /\ out[Len(out)].rule.head # rule.head

----------------------------------------------------------------------------
(* Properties of the classes' methods (SpecApi).                             *)

\* C2 (as claimed): permute_body fails whenever the order's length differs
\* from the body's, and returns a Rule only when the two lengths agree.
C2_PermuteBodyChecksLength ==
    call.op = "permute_body" =>
        /\ Len(call.order) # Len(rule.body) => ~IsOk(call.result)
        /\ IsOk(call.result) => Len(call.order) = Len(rule.body)

\* C3 (as claimed): every atom returned by the constructor or by permute has
\* as many terms and as many permutation entries as its predicate's arity,
\* and its permutation is a bijection on 0..arity-1.
C3_AtomWellFormed ==
    pc = "atom" =>
        /\ Len(a.terms) = a.pred.arity
        /\ Len(a.permutation) = a.pred.arity
        /\ IsPermutation(a.permutation)

\* C7: permute(p) followed by permute(inverse(p)) gives back the terms of the
\* atom it started from, and permute(identity) keeps the terms.
C7_RoundTrip ==
    /\ (Len(hist) = 1 /\ hist[1] = Range0(a0.pred.arity)) => a.terms = a0.terms
    /\ (Len(hist) = 2 /\ IsPermutation(hist[1]) /\ hist[2] = Inverse(hist[1]))
          => a.terms = a0.terms

C7_Witness ==
    /\ Len(hist) = 2
    /\ IsPermutation(hist[1])
    /\ hist[2] = Inverse(hist[1])
    /\ hist[2] # hist[1]
    /\ a0.terms = <<"x", "y", "z">>
    /\ call.atom.terms # a0.terms

\* C8 (as claimed): the constructor raises when the number of terms differs
\* from the arity and permute raises when the order's length differs from the
\* arity; both return an atom when the lengths agree.
C8_SucceedWhenLengthsMatch ==
    /\ call.op = "Atom" =>
        (IsOk(call.result) <=> Len(call.terms) = call.pred.arity)
    /\ call.op = "permute" =>
        (IsOk(call.result) <=> Len(call.order) = call.atom.pred.arity)

\* C8 (amended): the constructor raises exactly when the number of terms
\* differs from the arity; permute raises its length error exactly when the
\* order's length differs from the arity, and with equal lengths it returns
\* an atom exactly when every entry of the order indexes the terms
\* (-arity <= entry < arity), raising the list's index error otherwise; no
\* atom has a number of terms other than its arity.
C8_LengthsChecked ==
    /\ call.op = "Atom" =>
        /\ IsOk(call.result) <=> Len(call.terms) = call.pred.arity
        /\ ~IsOk(call.result) => call.result.exc = ArityError
        /\ IsOk(call.result) =>
            call.result.val.terms = call.terms /\ call.result.val.pred = call.pred
    /\ call.op = "permute" =>
        /\ Len(call.order) # call.atom.pred.arity => call.result.exc = OrderError
        /\ Len(call.order) = call.atom.pred.arity =>
            /\ call.result.exc \notin {OrderError, ArityError}
            /\ IsOk(call.result) <=>
                 \A i \in 1..Len(call.order) :
                    -call.atom.pred.arity <= call.order[i]
                        /\ call.order[i] < call.atom.pred.arity
            /\ ~IsOk(call.result) => call.result.exc = IndexError
            /\ IsOk(call.result) =>
                 Len(call.result.val.terms) = call.atom.pred.arity
    /\ pc = "atom" => Len(a.terms) = a.pred.arity /\ Len(a0.terms) = a0.pred.arity

C8_Witness ==
    /\ call.op = "permute"
    /\ Len(hist) = 1
    /\ call.result.exc = OrderError
    /\ Len(call.order) > call.atom.pred.arity

\* C9 (as claimed): after any chain of valid permute calls on an atom built
\* with the default permutation, the recorded permutation maps the current
\* term order to the constructed one: a.terms[i] == a0.terms[a.permutation[i]].
C9_PermutationIsCanonical ==
    (/\ pc = "atom"
     /\ a0.permutation = Range0(a0.pred.arity)
     /\ \A n \in 1..Len(hist) : IsPermutation(hist[n]))
        => ReorderedBy(a.terms, a0.terms, a.permutation)

============================================================================
